---------------------------- MODULE Spec2Model ----------------------------
(***************************************************************************)
(* Two independent batch scripts of the repository:                        *)
(*                                                                         *)
(*   generate-product-images.py  renders one PNG per record of             *)
(*                               IMAGE_CONFIGS into the uploads directory  *)
(*   organize_stories.py         moves story files into status folders     *)
(*                                                                         *)
(* A behaviour is one invocation of one of the two scripts (variable       *)
(* script); the organizer may be invoked a second time on the file system  *)
(* its first invocation left behind.                                       *)
(***************************************************************************)
EXTENDS Integers, Sequences, FiniteSets, TLC

VARIABLES
    script,         \* which script this behaviour runs: "images" or "stories"
    \* ---- generate-product-images.py
    gpc,            \* position: "import", "loop", "returned", "crashed", "idle"
    cfgIdx,         \* index of the next record of IMAGE_CONFIGS
    generated,      \* main(): generated
    errors,         \* main(): errors
    uploads,        \* names of the files this run left in UPLOADS_DIR
    processed,      \* history: <<index, outcome>> of every record processed
    gexit,          \* process exit code, -1 while running
    \* ---- organize_stories.py
    opc,            \* position: "start", "folders", "moving", "exited", "idle"
    content,        \* the regex matches of the status file, in file order
    stories,        \* parse_stories_from_yaml(): ordered dict filename -> status
    fs,             \* the tree under BASE_DIR: [files, dirs], sets of paths
    folderIdx,      \* index of the next folder of STATUS_FOLDERS
    storyIdx,       \* index of the next item of stories
    moved_count,    \* organize_stories(): moved_count
    skipped_count,  \* organize_stories(): skipped_count
    attempts,       \* history: one record per item visited by the move loop
    crashedAt,      \* "" or the step whose uncaught exception ended the run
    oexit,          \* process exit code, -1 while running
    run,            \* number of the current invocation
    firstRun        \* history: summary of the first invocation once it exited

gvars == <<gpc, cfgIdx, generated, errors, uploads, processed, gexit>>
ovars == <<opc, content, stories, fs, folderIdx, storyIdx, moved_count,
           skipped_count, attempts, crashedAt, oexit, run, firstRun>>
vars == <<script, gvars, ovars>>

\* Bounds of the model.
MaxErrors == 2
MaxEntries == 2

Range(s) == {s[k] : k \in DOMAIN s}

(***************************************************************************)
(* generate-product-images.py                                              *)
(***************************************************************************)

Cfg(p, v, c, i, w, h) ==
    [product |-> p, variant |-> v, color |-> c, index |-> i, width |-> w, height |-> h]

IMAGE_CONFIGS ==
    << Cfg("nuzzle", "cloud-white", "#F5F5F0", 1, 800, 800),
       Cfg("nuzzle", "cloud-white", "#F5F5F0", 2, 800, 800),
       Cfg("nuzzle", "sage", "#9CAF88", 1, 800, 800),
       Cfg("nuzzle", "sage", "#9CAF88", 2, 800, 800),
       Cfg("nuzzle", "terra-cotta", "#C17A5F", 1, 800, 800),
       Cfg("nuzzle", "terra-cotta", "#C17A5F", 2, 800, 800),
       Cfg("cradle", "cloud-white", "#F5F5F0", 1, 800, 1000),
       Cfg("cradle", "cloud-white", "#F5F5F0", 2, 800, 1000),
       Cfg("cradle", "charcoal", "#36454F", 1, 800, 1000),
       Cfg("cradle", "charcoal", "#36454F", 2, 800, 1000),
       Cfg("cradle", "navy", "#001F3F", 1, 800, 1000),
       Cfg("cradle", "navy", "#001F3F", 2, 800, 1000),
       Cfg("bearhug", "cloud-white", "#F5F5F0", 1, 1000, 1200),
       Cfg("bearhug", "cloud-white", "#F5F5F0", 2, 1000, 1200),
       Cfg("bearhug", "sand", "#C2B280", 1, 1000, 1200),
       Cfg("bearhug", "sand", "#C2B280", 2, 1000, 1200),
       Cfg("bearhug", "stone", "#8B8680", 1, 1000, 1200),
       Cfg("bearhug", "stone", "#8B8680", 2, 1000, 1200),
       Cfg("sandbar", "sunset-orange", "#FF6B35", 1, 1200, 1500),
       Cfg("sandbar", "sunset-orange", "#FF6B35", 2, 1200, 1500),
       Cfg("sandbar", "ocean-blue", "#006994", 1, 1200, 1500),
       Cfg("sandbar", "ocean-blue", "#006994", 2, 1200, 1500),
       Cfg("chefs-mate", "checkered-red", "#B22222", 1, 800, 1000),
       Cfg("chefs-mate", "checkered-red", "#B22222", 2, 800, 1000),
       Cfg("chefs-mate", "classic-stripe", "#2F4F4F", 1, 800, 1000),
       Cfg("chefs-mate", "classic-stripe", "#2F4F4F", 2, 800, 1000),
       Cfg("hearth", "walnut", "#5C4033", 1, 1000, 1200),
       Cfg("hearth", "walnut", "#5C4033", 2, 1000, 1200),
       Cfg("hearth", "slate", "#708090", 1, 1000, 1200),
       Cfg("hearth", "slate", "#708090", 2, 1000, 1200),
       Cfg("wool-dryer-balls", "natural", "#D4A574", 1, 800, 800) >>

\* Mutant of FileName: the image index is left out of the name.
FileNameNoIndex(config) ==
    config.product \o "-" \o config.variant \o ".png"

\* f"{config['product']}-{config['variant']}-0{config['index']}.png"
FileName(config) ==
    config.product \o "-" \o config.variant \o "-0" \o ToString(config.index) \o ".png"

\* Line 14, os.makedirs(UPLOADS_DIR, exist_ok=True), succeeds; main() starts.
MakeUploadsDir ==
    /\ script = "images"
    /\ gpc = "import"
    /\ gpc' = "loop"
    /\ UNCHANGED <<script, ovars, cfgIdx, generated, errors, uploads, processed, gexit>>

\* Line 14 raises (the directory cannot be created): the traceback ends the
\* process with exit code 1 before main() is entered.
MakeUploadsDirFail ==
    /\ script = "images"
    /\ gpc = "import"
    /\ gpc' = "crashed"
    /\ gexit' = 1
    /\ UNCHANGED <<script, ovars, cfgIdx, generated, errors, uploads, processed>>

InLoop ==
    /\ script = "images"
    /\ gpc = "loop"
    /\ cfgIdx <= Len(IMAGE_CONFIGS)

\* Mutant of Failed: no handler, the exception leaves main().
FailedAborts(leftFile) ==
    /\ InLoop
    /\ errors < MaxErrors
    /\ uploads' = IF leftFile THEN uploads \cup {FileName(IMAGE_CONFIGS[cfgIdx])}
                              ELSE uploads
    /\ gpc' = "crashed"
    /\ gexit' = 1
    /\ UNCHANGED <<script, ovars, cfgIdx, generated, errors, processed>>

\* The except branch of one iteration (lines 165-167): errors += 1 and the
\* loop goes on. leftFile: whether the failed try body left the file behind.
Failed(leftFile) ==
    /\ InLoop
    /\ errors < MaxErrors
    /\ uploads' = IF leftFile THEN uploads \cup {FileName(IMAGE_CONFIGS[cfgIdx])}
                              ELSE uploads
    /\ errors' = errors + 1
    /\ processed' = Append(processed, <<cfgIdx, "error">>)
    /\ cfgIdx' = cfgIdx + 1
    /\ UNCHANGED <<script, ovars, gpc, generated, gexit>>

\* Mutant of GenerateOk: the image is counted and never saved.
GenerateOkNoSave ==
    /\ InLoop
    /\ generated' = generated + 1
    /\ processed' = Append(processed, <<cfgIdx, "generated">>)
    /\ cfgIdx' = cfgIdx + 1
    /\ UNCHANGED <<script, ovars, gpc, uploads, errors, gexit>>

\* Mutant of GenerateOk: the success branch also counts an error.
GenerateOkCountsError ==
    /\ InLoop
    /\ uploads' = uploads \cup {FileName(IMAGE_CONFIGS[cfgIdx])}
    /\ generated' = generated + 1
    /\ errors' = errors + 1
    /\ processed' = Append(processed, <<cfgIdx, "generated">>)
    /\ cfgIdx' = cfgIdx + 1
    /\ UNCHANGED <<script, ovars, gpc, gexit>>

\* One iteration whose try body runs to its end (lines 155-164): the image is
\* rendered and saved under its name, generated += 1.
GenerateOk ==
    /\ InLoop
    /\ uploads' = uploads \cup {FileName(IMAGE_CONFIGS[cfgIdx])}
    /\ generated' = generated + 1
    /\ processed' = Append(processed, <<cfgIdx, "generated">>)
    /\ cfgIdx' = cfgIdx + 1
    /\ UNCHANGED <<script, ovars, gpc, errors, gexit>>

\* generate_image(config) raises (line 158): nothing was written.
GenerateRenderFail == Failed(FALSE)

\* img.save raises (line 160): the file may or may not have been created.
GenerateSaveFail == \E leftFile \in BOOLEAN : Failed(leftFile)

\* os.path.getsize raises after a completed save (line 162): the file exists.
GenerateStatFail == Failed(TRUE)

\* Mutant of ExitCode: the exit code ignores the error counter.
ExitCodeAlwaysZero(errs) == 0

\* return 0 if errors == 0 else 1
ExitCode(errs) == IF errs = 0 THEN 0 ELSE 1

\* The loop is exhausted: summary line, return, sys.exit(main()).
Return ==
    /\ script = "images"
    /\ gpc = "loop"
    /\ cfgIdx > Len(IMAGE_CONFIGS)
    /\ gpc' = "returned"
    /\ gexit' = ExitCode(errors)
    /\ UNCHANGED <<script, ovars, cfgIdx, generated, errors, uploads, processed>>

GenInit ==
    /\ gpc = "import"
    /\ cfgIdx = 1
    /\ generated = 0
    /\ errors = 0
    /\ uploads = {}
    /\ processed = <<>>
    /\ gexit = -1

GenIdle ==
    /\ gpc = "idle"
    /\ cfgIdx = 1
    /\ generated = 0
    /\ errors = 0
    /\ uploads = {}
    /\ processed = <<>>
    /\ gexit = -1


(***************************************************************************)
(* organize_stories.py                                                     *)
(***************************************************************************)

STATUS_FOLDERS == <<"done", "ready-for-dev", "in-progress", "backlog", "drafted">>

\* YAML_PATH relative to BASE_DIR: the status file lies in the base directory.
YamlPath == <<"sprint-status.yaml">>

\* The values group(2) (path, as its components) and group(3) (status) of a
\* regex match may take; group(1) is read and never used.
Paths == { <<"docs", "a.md">>, <<"old", "a.md">>, <<"docs", "b.md">>, <<"docs", "done">> }
Statuses == {"done", "backlog", "in-progress", "review"}
Matches == [path : Paths, status : Statuses]

SeqsUpTo(S, n) == UNION {[1..k -> S] : k \in 0..n}

\* os.path.basename(path)
Basename(path) == path[Len(path)]

\* stories[filename] = status on an insertion-ordered dict: an existing key
\* keeps its position and takes the new value, a new key is appended.
DictSet(d, filename, status) ==
    IF \E k \in DOMAIN d : d[k].filename = filename
    THEN [k \in DOMAIN d |->
            IF d[k].filename = filename
            THEN [filename |-> filename, status |-> status] ELSE d[k]]
    ELSE Append(d, [filename |-> filename, status |-> status])

RECURSIVE ParseFrom(_, _, _)
ParseFrom(matches, k, d) ==
    IF k > Len(matches) THEN d
    ELSE ParseFrom(matches, k + 1,
                   DictSet(d, Basename(matches[k].path), matches[k].status))

\* parse_stories_from_yaml(): the loop over re.finditer(pattern, content)
ParseStories(matches) == ParseFrom(matches, 1, <<>>)

\* ---- the file system under BASE_DIR; a path is its sequence of names

Exists(f, p) == p \in f.files \cup f.dirs
IsDir(f, p) == p \in f.dirs
IsPrefix(p, q) == Len(p) <= Len(q) /\ SubSeq(q, 1, Len(p)) = p
Parent(p) == SubSeq(p, 1, Len(p) - 1)
Ancestors(p) == {SubSeq(p, 1, k) : k \in 1..(Len(p) - 1)}
Rebase(q, src, dst) == dst \o SubSeq(q, Len(src) + 1, Len(q))

\* os.rename(src, dst): the subtree at src is now at dst
Rename(f, src, dst) ==
    [files |-> {IF IsPrefix(src, q) THEN Rebase(q, src, dst) ELSE q : q \in f.files},
     dirs  |-> {IF IsPrefix(src, q) THEN Rebase(q, src, dst) ELSE q : q \in f.dirs}]

\* Whether os.rename(src, dst) succeeds: dst's directory exists, a directory
\* is not renamed into itself nor onto a regular file.
CanRename(f, src, dst) ==
    /\ Len(dst) = 1 \/ IsDir(f, Parent(dst))
    /\ ~(IsDir(f, src) /\ IsPrefix(src, dst))
    /\ ~(IsDir(f, src) /\ dst \in f.files)

\* shutil.move(src, dst): [ok, fs]; ok = FALSE when it raises.
ShutilMove(f, src, dst) ==
    LET real_dst == IF IsDir(f, dst) THEN Append(dst, Basename(src)) ELSE dst
    IN  IF IsDir(f, dst) /\ Exists(f, real_dst)
        THEN [ok |-> FALSE, fs |-> f]       \* Destination path already exists
        ELSE IF CanRename(f, src, real_dst)
        THEN [ok |-> TRUE, fs |-> Rename(f, src, real_dst)]
        ELSE IF IsDir(f, src)
        THEN IF IsPrefix(src, dst)
             THEN [ok |-> FALSE, fs |-> f]  \* Cannot move a directory into itself
             ELSE IF Exists(f, real_dst) \/ Ancestors(real_dst) \cap f.files # {}
             THEN [ok |-> FALSE, fs |-> f]  \* copytree: makedirs raises
             ELSE LET g == Rename(f, src, real_dst)  \* copytree, then rmtree
                  IN  [ok |-> TRUE,
                       fs |-> [g EXCEPT !.dirs = @ \cup Ancestors(real_dst)]]
        ELSE [ok |-> FALSE, fs |-> f]       \* copy2 into a missing directory

\* Mutant of TargetFolder: the fallback names a folder that is not created.
TargetFolderBadDefault(status) ==
    IF status \in Range(STATUS_FOLDERS) THEN status ELSE "todo"

\* target_folder = status if status in STATUS_FOLDERS else 'backlog'
TargetFolder(status) ==
    IF status \in Range(STATUS_FOLDERS) THEN status ELSE "backlog"

\* An uncaught exception: traceback, exit code 1.
Crash(step) ==
    /\ opc' = "exited"
    /\ crashedAt' = step
    /\ oexit' = 1

\* open(YAML_PATH) raises FileNotFoundError (line 20); nothing catches it.
OpenFails ==
    /\ script = "stories"
    /\ opc = "start"
    /\ YamlPath \notin fs.files
    /\ Crash("open")
    /\ UNCHANGED <<script, gvars, content, stories, fs, folderIdx, storyIdx,
                   moved_count, skipped_count, attempts, run, firstRun>>

\* stories = parse_stories_from_yaml() (line 41)
Parse ==
    /\ script = "stories"
    /\ opc = "start"
    /\ YamlPath \in fs.files
    /\ stories' = ParseStories(content)
    /\ opc' = "folders"
    /\ folderIdx' = 1
    /\ UNCHANGED <<script, gvars, content, fs, storyIdx, moved_count,
                   skipped_count, attempts, crashedAt, oexit, run, firstRun>>

InFolders ==
    /\ script = "stories"
    /\ opc = "folders"
    /\ folderIdx <= Len(STATUS_FOLDERS)

\* os.makedirs(folder_path, exist_ok=True) creates or verifies one folder
\* (lines 45-48).
MakeFolder ==
    /\ InFolders
    /\ <<STATUS_FOLDERS[folderIdx]>> \notin fs.files
    /\ fs' = [fs EXCEPT !.dirs = @ \cup {<<STATUS_FOLDERS[folderIdx]>>}]
    /\ folderIdx' = folderIdx + 1
    /\ UNCHANGED <<script, gvars, opc, content, stories, storyIdx, moved_count,
                   skipped_count, attempts, crashedAt, oexit, run, firstRun>>

\* os.makedirs raises (a regular file has the name, or the directory cannot
\* be created); nothing catches it.
MakeFolderFails ==
    /\ InFolders
    /\ Crash("makedirs")
    /\ UNCHANGED <<script, gvars, content, stories, fs, folderIdx, storyIdx,
                   moved_count, skipped_count, attempts, run, firstRun>>

\* moved_count = 0; skipped_count = 0 (lines 50-51)
BeginMoves ==
    /\ script = "stories"
    /\ opc = "folders"
    /\ folderIdx > Len(STATUS_FOLDERS)
    /\ opc' = "moving"
    /\ storyIdx' = 1
    /\ moved_count' = 0
    /\ skipped_count' = 0
    /\ UNCHANGED <<script, gvars, content, stories, fs, folderIdx, attempts,
                   crashedAt, oexit, run, firstRun>>

InMoves ==
    /\ script = "stories"
    /\ opc = "moving"
    /\ storyIdx <= Len(stories)

SrcPath == <<stories[storyIdx].filename>>
TargetPath == <<TargetFolder(stories[storyIdx].status), stories[storyIdx].filename>>

Attempt(result) ==
    [filename |-> stories[storyIdx].filename,
     status |-> stories[storyIdx].status,
     target |-> TargetFolder(stories[storyIdx].status),
     result |-> result,
     destExisted |-> IsDir(fs, <<TargetFolder(stories[storyIdx].status)>>)]

\* if not os.path.exists(src_path): continue (lines 57-58)
SkipMissing ==
    /\ InMoves
    /\ ~Exists(fs, SrcPath)
    /\ attempts' = Append(attempts, Attempt("missing"))
    /\ storyIdx' = storyIdx + 1
    /\ UNCHANGED <<script, gvars, opc, content, stories, fs, folderIdx, moved_count,
                   skipped_count, crashedAt, oexit, run, firstRun>>

\* shutil.move succeeds; moved_count += 1 (lines 66-68)
MoveOk ==
    /\ InMoves
    /\ Exists(fs, SrcPath)
    /\ ShutilMove(fs, SrcPath, TargetPath).ok
    /\ fs' = ShutilMove(fs, SrcPath, TargetPath).fs
    /\ moved_count' = moved_count + 1
    /\ attempts' = Append(attempts, Attempt("moved"))
    /\ storyIdx' = storyIdx + 1
    /\ UNCHANGED <<script, gvars, opc, content, stories, folderIdx, skipped_count,
                   crashedAt, oexit, run, firstRun>>

\* Mutant of MoveError: no handler, the exception leaves organize_stories().
MoveErrorAborts ==
    /\ InMoves
    /\ Exists(fs, SrcPath)
    /\ Crash("move")
    /\ UNCHANGED <<script, gvars, content, stories, fs, folderIdx, storyIdx,
                   moved_count, skipped_count, attempts, run, firstRun>>

\* shutil.move raises, for the reasons ShutilMove gives or any other OSError;
\* except Exception: skipped_count += 1 (lines 69-71)
MoveError ==
    /\ InMoves
    /\ Exists(fs, SrcPath)
    /\ skipped_count' = skipped_count + 1
    /\ attempts' = Append(attempts, Attempt("error"))
    /\ storyIdx' = storyIdx + 1
    /\ UNCHANGED <<script, gvars, opc, content, stories, fs, folderIdx, moved_count,
                   crashedAt, oexit, run, firstRun>>

\* The summary lines, print("Done!"), and the interpreter exits with 0
\* (lines 73-79).
Summary ==
    /\ script = "stories"
    /\ opc = "moving"
    /\ storyIdx > Len(stories)
    /\ opc' = "exited"
    /\ oexit' = 0
    /\ UNCHANGED <<script, gvars, content, stories, fs, folderIdx, storyIdx,
                   moved_count, skipped_count, attempts, crashedAt, run, firstRun>>

NoRun == [moved |-> 0, skipped |-> 0, exit |-> -1]

\* The script is invoked again on the same status file and the file system
\* the first invocation left.
Rerun ==
    /\ script = "stories"
    /\ opc = "exited"
    /\ run = 1
    /\ run' = run + 1
    /\ firstRun' = [moved |-> moved_count, skipped |-> skipped_count, exit |-> oexit]
    /\ opc' = "start"
    /\ stories' = <<>>
    /\ folderIdx' = 1
    /\ storyIdx' = 1
    /\ moved_count' = 0
    /\ skipped_count' = 0
    /\ attempts' = <<>>
    /\ crashedAt' = ""
    /\ oexit' = -1
    /\ UNCHANGED <<script, gvars, content, fs>>

\* The regular files that may lie at the top level of BASE_DIR at the start:
\* story files, and a file that has the name of a status folder.
TopFiles == { <<"a.md">>, <<"b.md">>, <<"drafted">> }

OrgFresh ==
    /\ stories = <<>>
    /\ folderIdx = 1
    /\ storyIdx = 1
    /\ moved_count = 0
    /\ skipped_count = 0
    /\ attempts = <<>>
    /\ crashedAt = ""
    /\ oexit = -1
    /\ run = 1
    /\ firstRun = NoRun

OrgInit ==
    /\ opc = "start"
    /\ OrgFresh
    /\ \E top \in SUBSET TopFiles :
          \/ /\ content \in SeqsUpTo(Matches, MaxEntries)
             /\ fs = [files |-> top \cup {YamlPath}, dirs |-> {}]
          \/ /\ content = <<>>
             /\ fs = [files |-> top, dirs |-> {}]

OrgIdle ==
    /\ opc = "idle"
    /\ OrgFresh
    /\ content = <<>>
    /\ fs = [files |-> {}, dirs |-> {}]

Init ==
    \/ script = "images" /\ GenInit /\ OrgIdle
    \/ script = "stories" /\ GenIdle /\ OrgInit

Next ==
    \/ MakeUploadsDir
    \/ MakeUploadsDirFail
    \/ GenerateOk
    \/ GenerateRenderFail
    \/ GenerateSaveFail
    \/ GenerateStatFail
    \/ Return
    \/ OpenFails
    \/ Parse
    \/ MakeFolder
    \/ MakeFolderFails
    \/ BeginMoves
    \/ SkipMissing
    \/ MoveOk
    \/ MoveError
    \/ Summary
    \/ Rerun

Spec == Init /\ [][Next]_vars

(***************************************************************************)
(* Properties                                                              *)
(***************************************************************************)

Images == script = "images"
Organizer == script = "stories"

NameOf(k) == FileName(IMAGE_CONFIGS[processed[k][1]])
ErrorEntries == {k \in DOMAIN processed : processed[k][2] = "error"}
GeneratedEntries == {k \in DOMAIN processed : processed[k][2] = "generated"}
Results(kind) == {k \in DOMAIN attempts : attempts[k].result = kind}

\* C1: every record main() has processed either left its file
\* {product}-{variant}-0{index}.png in the uploads directory or was counted
\* in errors; no record ends with neither outcome.
C1_FileOrError ==
    Images =>
        /\ \A k \in DOMAIN processed :
              NameOf(k) \in uploads \/ processed[k][2] = "error"
        /\ errors = Cardinality(ErrorEntries)

C1_Witness ==
    /\ Images
    /\ gpc = "returned"
    /\ \E k \in ErrorEntries : NameOf(k) \notin uploads
    /\ \E k \in GeneratedEntries : NameOf(k) \in uploads

\* C2: main() returns 0 exactly when no record raised an error, and 1 when
\* at least one did, wherever the failing record stands in the list.
C2_ExitCode ==
    (Images /\ gpc = "returned") =>
        /\ gexit = (IF ErrorEntries = {} THEN 0 ELSE 1)
        /\ (gexit = 0) <=> (errors = 0)

C2_Witness ==
    /\ Images
    /\ gpc = "returned"
    /\ gexit = 1
    /\ ErrorEntries = {Len(IMAGE_CONFIGS)}

\* C3: in both scripts a failing item is caught and counted and the loop
\* goes on: the items visited so far are the first items of the list, each
\* once and in order, no exception leaves the loop, and at the summary every
\* item has been visited.
C3_BatchNotAborted ==
    /\ Images =>
          /\ \A k \in DOMAIN processed : processed[k][1] = k
          /\ Len(processed) = cfgIdx - 1
          /\ errors = Cardinality(ErrorEntries)
          /\ gpc = "crashed" => cfgIdx = 1
          /\ gpc = "returned" => Len(processed) = Len(IMAGE_CONFIGS)
    /\ Organizer =>
          /\ Len(attempts) <= Len(stories)
          /\ \A k \in DOMAIN attempts :
                /\ attempts[k].filename = stories[k].filename
                /\ attempts[k].status = stories[k].status
          /\ opc = "moving" => Len(attempts) = storyIdx - 1
          /\ opc \in {"moving", "exited"} /\ attempts # <<>> =>
                skipped_count = Cardinality(Results("error"))
          /\ crashedAt \in {"", "open", "makedirs"}
          /\ (opc = "exited" /\ crashedAt = "") => Len(attempts) = Len(stories)

C3_Witness ==
    /\ Organizer
    /\ opc = "exited"
    /\ oexit = 0
    /\ Len(attempts) = 2
    /\ attempts[1].result = "error"
    /\ attempts[2].result = "moved"

\* C4: the folder chosen for a parsed status is always one of STATUS_FOLDERS:
\* the status itself when it is one of them, 'backlog' otherwise.
C4_MappingTotal ==
    Organizer =>
        /\ \A k \in DOMAIN stories :
              /\ TargetFolder(stories[k].status) \in Range(STATUS_FOLDERS)
              /\ stories[k].status \in {"done", "ready-for-dev", "in-progress",
                                        "backlog", "drafted"}
                    => TargetFolder(stories[k].status) = stories[k].status
              /\ stories[k].status \notin {"done", "ready-for-dev", "in-progress",
                                           "backlog", "drafted"}
                    => TargetFolder(stories[k].status) = "backlog"
        /\ \A k \in DOMAIN attempts : attempts[k].target \in Range(STATUS_FOLDERS)

C4_Witness ==
    /\ Organizer
    /\ opc = "exited"
    /\ \E k \in Results("moved") :
          attempts[k].status = "review" /\ attempts[k].target = "backlog"
    /\ \E k \in Results("moved") :
          attempts[k].status = "in-progress" /\ attempts[k].target = "in-progress"

\* C5 (as claimed): a second run right after a fully successful run (exit
\* code 0, nothing skipped for an error) moves nothing.
C5_SecondRunMovesNothing ==
    (Organizer /\ run > 1 /\ firstRun.exit = 0 /\ firstRun.skipped = 0)
        => moved_count = 0

\* C6 (as claimed): the organizer always exits with code 0.
C6_AlwaysExitsZero ==
    (Organizer /\ opc = "exited") => oexit = 0

\* C6 (amended): the organizer exits with 0 whenever the status file could
\* be opened and all five folders were created, whatever the moves did; an
\* absent status file or a failing os.makedirs ends it with exit code 1
\* before any move is attempted.
C6_ExitCode ==
    (Organizer /\ opc = "exited") =>
        /\ crashedAt = "" => oexit = 0 /\ folderIdx > Len(STATUS_FOLDERS)
        /\ crashedAt # "" =>
              /\ oexit = 1
              /\ crashedAt \in {"open", "makedirs"}
              /\ folderIdx <= Len(STATUS_FOLDERS)
              /\ attempts = <<>>
        /\ attempts # <<>> => oexit = 0

C6_Witness ==
    /\ Organizer
    /\ opc = "exited"
    /\ oexit = 0
    /\ Results("error") # {}

\* C7 (as claimed): after a run, every file whose move succeeded lies at
\* <base>/<target folder>/<filename> and no longer at the top level, and
\* moved_count is the number of such files.
C7_MovedFilesInPlace ==
    (Organizer /\ opc = "exited" /\ crashedAt = "") =>
        /\ \A k \in Results("moved") :
              /\ Exists(fs, <<attempts[k].target, attempts[k].filename>>)
              /\ ~Exists(fs, <<attempts[k].filename>>)
        /\ moved_count = Cardinality(Results("moved"))

\* C8 (as claimed): the five folders are created before the first move, so
\* at every move attempt the destination folder of that move exists.
C8_DestinationExists ==
    Organizer =>
        /\ attempts # <<>> => folderIdx > Len(STATUS_FOLDERS)
        /\ \A k \in Results("moved") \cup Results("error") : attempts[k].destExisted

\* C9: throughout main()'s loop generated + errors is the number of records
\* processed so far, every processed record having added 1 to exactly one of
\* the two counters; at the end the sum is the length of IMAGE_CONFIGS.
C9_Counters ==
    Images =>
        /\ generated = Cardinality(GeneratedEntries)
        /\ errors = Cardinality(ErrorEntries)
        /\ gpc \in {"loop", "returned"} => generated + errors = cfgIdx - 1
        /\ gpc = "returned" => generated + errors = Len(IMAGE_CONFIGS)

C9_Witness ==
    /\ Images
    /\ gpc = "returned"
    /\ generated > 0
    /\ errors > 1

DistinctNames ==
    \A i, j \in DOMAIN IMAGE_CONFIGS :
        i # j => FileName(IMAGE_CONFIGS[i]) # FileName(IMAGE_CONFIGS[j])

\* C10: no two records of IMAGE_CONFIGS have the same file name, so a run
\* without errors leaves as many distinct files as it has processed records,
\* len(IMAGE_CONFIGS) of them at the end.
C10_DistinctNames ==
    Images =>
        /\ DistinctNames
        /\ errors = 0 => Cardinality(uploads) = generated
        /\ (gpc = "returned" /\ errors = 0) =>
              Cardinality(uploads) = Len(IMAGE_CONFIGS)

C10_Witness ==
    /\ Images
    /\ gpc = "returned"
    /\ errors = 0
    /\ Cardinality(uploads) = Len(IMAGE_CONFIGS)

=============================================================================
